---- MODULE Spec2Model ----
\* CatMart Go API: the order-creation transaction (OrderService), the order
\* history read (GetUserOrders / getOrderItems) and the catalog query
\* (ProductService.GetProducts) over a read-committed relational store.
\* Money columns are DECIMAL(10,2) and are kept in hundredths; the Go code
\* computes with float64, which is modelled bit-exactly below.
EXTENDS Integers, Sequences, FiniteSets, TLC

\* ---------------------------------------------------------------------
\* Go float64 (IEEE-754 binary64, round to nearest even) for the positive
\* values the order path computes.  A value is [e, hi, lo] and stands for
\* (hi * 2^26 + lo) * 2^e with 2^26 <= hi < 2^27; zero is [0, 0, 0].
\* ---------------------------------------------------------------------
Limb == 67108864

HalfLimb == 33554432

TopLimb == 134217728

F64Zero == [e |-> 0, hi |-> 0, lo |-> 0]

F64ShiftR(x) ==
  [e  |-> x.e + 1,
   hi |-> x.hi \div 2,
   lo |-> (x.lo \div 2) + (x.hi % 2) * HalfLimb,
   g  |-> x.lo % 2,
   s  |-> IF x.s = 1 \/ x.g = 1 THEN 1 ELSE 0]

RECURSIVE F64ShiftN(_, _)
F64ShiftN(x, n) ==
  IF n = 0 THEN x
  ELSE IF x.hi = 0 /\ x.lo = 0
       THEN [x EXCEPT !.e = x.e + n, !.g = 0,
                      !.s = IF x.s = 1 \/ x.g = 1 THEN 1 ELSE 0]
       ELSE F64ShiftN(F64ShiftR(x), n - 1)

RECURSIVE F64Normalize(_)
F64Normalize(x) ==
  IF x.hi >= TopLimb THEN F64Normalize(F64ShiftR(x)) ELSE x

F64Round(x) ==
  IF x.g = 1 /\ (x.s = 1 \/ x.lo % 2 = 1)
  THEN IF x.lo + 1 < Limb
       THEN [e |-> x.e, hi |-> x.hi, lo |-> x.lo + 1]
       ELSE IF x.hi + 1 < TopLimb
            THEN [e |-> x.e, hi |-> x.hi + 1, lo |-> 0]
            ELSE [e |-> x.e + 1, hi |-> Limb, lo |-> 0]
  ELSE [e |-> x.e, hi |-> x.hi, lo |-> x.lo]

F64MulInt(a, q) ==
  IF a = F64Zero \/ q = 0 THEN F64Zero
  ELSE F64Round(F64Normalize(
         [e  |-> a.e,
          hi |-> a.hi * q + ((a.lo * q) \div Limb),
          lo |-> (a.lo * q) % Limb,
          g  |-> 0, s |-> 0]))

F64Add(a, b) ==
  IF a = F64Zero THEN b
  ELSE IF b = F64Zero THEN a
  ELSE LET big   == IF a.e >= b.e THEN a ELSE b
           small == IF a.e >= b.e THEN b ELSE a
           sh    == F64ShiftN([e |-> small.e, hi |-> small.hi, lo |-> small.lo,
                               g |-> 0, s |-> 0], big.e - small.e)
           lo2   == big.lo + sh.lo
       IN  F64Round(F64Normalize(
             [e  |-> big.e,
              hi |-> big.hi + sh.hi + (lo2 \div Limb),
              lo |-> lo2 % Limb,
              g  |-> sh.g, s |-> sh.s]))

\* Long division n / d in binary, five quotient bits a round while they fit
\* and then bit by bit, until the quotient has 53 bits; r is the remainder.
RECURSIVE F64Divide(_, _, _, _, _)
F64Divide(hi, lo, r, d, k) ==
  IF hi >= Limb
  THEN F64Round([e |-> 0 - k, hi |-> hi, lo |-> lo,
                 g |-> IF 2 * r >= d THEN 1 ELSE 0,
                 s |-> IF 2 * r # d THEN 1 ELSE 0])
  ELSE LET m   == IF hi < 2097152 THEN 32 ELSE 2
           lo2 == m * lo + ((m * r) \div d)
       IN  F64Divide(m * hi + (lo2 \div Limb), lo2 % Limb,
                     (m * r) % d, d, k + (IF m = 32 THEN 5 ELSE 1))

F64FromRatio(n, d) ==
  IF n = 0 THEN F64Zero ELSE F64Divide(0, n \div d, n % d, d, 0)

\* A float64 as a fixed-point number of four limbs <<l0, l1, l2, l3>>:
\* l0 + l1 / 2^26 + l2 / 2^52 + l3 / 2^78 (exact for 2^-26 <= x < 2^26).
RECURSIVE F64Shl(_, _)
F64Shl(n, k) ==
  IF k = 0 THEN n
  ELSE LET m  == IF k >= 4 THEN 16 ELSE 2
           d3 == m * n[4]
           d2 == m * n[3] + (d3 \div Limb)
           d1 == m * n[2] + (d2 \div Limb)
           d0 == m * n[1] + (d1 \div Limb)
       IN  F64Shl(<<d0, d1 % Limb, d2 % Limb, d3 % Limb>>,
                  IF k >= 4 THEN k - 4 ELSE k - 1)

F64Fixed(x) == F64Shl(<<0, 0, x.hi, x.lo>>, x.e + 78)

\* The fraction <<f1, f2, f3>> times ten: <<digit, f1, f2, f3>>.
FracTimes10(f) ==
  LET t3 == 10 * f[3]
      t2 == 10 * f[2] + (t3 \div Limb)
      t1 == 10 * f[1] + (t2 \div Limb)
  IN  <<t1 \div Limb, t1 % Limb, t2 % Limb, t3 % Limb>>

\* The value a DECIMAL(10,2) column keeps of a float64 parameter, in
\* hundredths.  The driver sends the shortest decimal text that reads back
\* as the same float64 and the store rounds that text to two decimals, half
\* away from zero: a float64 whose text is k.kk5 rounds up although its
\* binary value may lie below the half.
NumericRound2(x) ==
  IF x = F64Zero THEN 0
  ELSE LET n  == F64Fixed(x)
           a  == FracTimes10(<<n[2], n[3], n[4]>>)
           b  == FracTimes10(<<a[2], a[3], a[4]>>)
           c  == 100 * n[1] + 10 * a[1] + b[1]
           d  == FracTimes10(<<b[2], b[3], b[4]>>)
       IN  IF \/ b[2] >= HalfLimb
              \/ d[1] = 4 /\ x = F64FromRatio(10 * c + 5, 1000)
           THEN c + 1 ELSE c

\* ---------------------------------------------------------------------
\* Bounds of the model
\* ---------------------------------------------------------------------
MaxItems == 2

MaxQty == 2

MaxPriceChanges == 1

Calls == {"c1", "c2"}

Readers == {"r1"}

Users == {"u1", "u2"}

\* Identifiers a request may name: the two products of the catalog and one
\* identifier that no product has.
MissingID == "p0"

RequestIDs == {"p1", "p2", MissingID}

\* Prices, in hundredths, that a product may be given.
PriceSet == {10, 20}

ItemRequests == [ProductID : RequestIDs, Qty : 1..MaxQty]

RECURSIVE SeqsUpTo(_, _)
SeqsUpTo(S, n) ==
  IF n = 0 THEN {<<>>}
  ELSE LET shorter == SeqsUpTo(S, n - 1)
       IN  shorter \cup {Append(s, x) : s \in {t \in shorter : Len(t) = n - 1}, x \in S}

CreateOrderRequests == SeqsUpTo(ItemRequests, MaxItems)

None == "none"

VARIABLES
  products,      \* table products: id -> row
  orders,        \* table orders: the committed rows
  order_items,   \* table order_items: the committed rows
  call,          \* the CreateOrder calls: position, locals, open transaction,
                 \* and the prices each product had during the call (seen)
  reader,        \* the GetUserOrders calls: position, locals, and the
                 \* orders table as it was when the query ran (snapshot)
  clock,         \* the wall clock read by time.Now()
  priceChanges,  \* number of price updates committed by other transactions
  listing,       \* the last GetProducts call: its filter and its response
  http,          \* the HTTP exchange: the request and the router's answer
  earlier,       \* the results of the reads a client made before its last ones
  users,         \* table users: the committed rows
  auth,          \* the RegisterUser and LoginUser calls: position and answer
  home,          \* the Home page: its state and its requests in flight
  cart,          \* the cart store of the web client
  checkout,      \* Cart.handleCheckout: position, the request sent
  seed           \* SeedProducts at server start: position and runs

\* The variables of the accounts, of the web client and of the server start.
client == <<earlier, users, auth, home, cart, checkout, seed>>

\* The variables of the catalog and of the orders.
shop == <<products, orders, order_items, call, reader, clock, priceChanges,
          listing, http>>

vars == <<products, orders, order_items, call, reader, clock, priceChanges,
          listing, http, earlier, users, auth, home, cart, checkout, seed>>

NoResponse == [ok |-> FALSE, err |-> None, OrderID |-> None, Total |-> F64Zero]

IdleCall ==
  [pc |-> "idle", userID |-> None, req |-> <<>>, i |-> 1,
   totalAmount |-> F64Zero, now |-> 0, txOrder |-> {}, txItems |-> {},
   res |-> NoResponse, seen |-> [p \in {} |-> {}],
   attrs |-> [p \in {} |-> {}], deadline |-> FALSE, at |-> None,
   tx |-> "none", txCount |-> 0]

IdleReader ==
  [pc |-> "idle", userID |-> None, rows |-> <<>>, k |-> 1,
   orders |-> <<>>, ok |-> FALSE, snapshot |-> {}, rowsErr |-> FALSE]

NoFilter == [Query |-> <<>>, Category |-> "", Limit |-> 0, Offset |-> 0]

NoListing ==
  [done |-> FALSE, filter |-> NoFilter, products |-> <<>>, err |-> None,
   rowsErr |-> FALSE]

NoExchange ==
  [pc |-> "idle", route |-> None, authorization |-> None, id |-> None,
   body |-> None, handler |-> None, userID |-> None, status |-> 0,
   storeErr |-> FALSE, product |-> None]

\* The calls of the account routes.
AuthCalls == {"a1", "a2", "a3"}

IdleAuth ==
  [pc |-> "idle", op |-> None, email |-> None, password |-> None,
   err |-> None, status |-> 0, message |-> None, user |-> None,
   token |-> [user_id |-> None, key |-> "", expired |-> FALSE]]

NoEarlier == [listing |-> NoListing, reader |-> IdleReader]

\* The Home page before its first render.
NoHome ==
  [mounted |-> FALSE, searchQuery |-> <<>>, selectedCategory |-> "",
   products |-> <<>>, loading |-> TRUE, error |-> None,
   inflight |-> {}, fetches |-> 0]

EmptyCart == [items |-> <<>>, total |-> 0]

IdleCheckout ==
  [pc |-> "idle", loggedIn |-> FALSE, requests |-> 0, orderData |-> <<>>,
   outcome |-> None]

\* SeedProducts has not run, or is not looked at.
NoSeed == [pc |-> "down", runs |-> 0, i |-> 1, file |-> <<>>, outcome |-> None]

InitClient ==
  /\ earlier = NoEarlier
  /\ users = {}
  /\ auth = [a \in AuthCalls |-> IdleAuth]
  /\ home = NoHome
  /\ cart = EmptyCart
  /\ checkout = IdleCheckout
  /\ seed = NoSeed

InitProducts ==
  [p \in {"p1", "p2"} |->
     IF p = "p1"
     THEN [price |-> 10, title |-> <<"a">>, category |-> "food",
           description |-> <<"A">>, stock_quantity |-> 5, created_at |-> 0]
     ELSE [price |-> 20, title |-> <<"_">>, category |-> "toys",
           description |-> <<"a">>, stock_quantity |-> 5, created_at |-> 1]]

Init ==
  /\ products = InitProducts
  /\ orders = {}
  /\ order_items = {}
  /\ call = [c \in Calls |-> IdleCall]
  /\ reader = [r \in Readers |-> IdleReader]
  /\ clock = 2
  /\ priceChanges = 0
  /\ listing = NoListing
  /\ http = NoExchange
  /\ InitClient

\* ---------------------------------------------------------------------
\* OrderService.CreateOrder
\* ---------------------------------------------------------------------

\* SELECT price FROM products WHERE id = $1, scanned into a float64: the
\* committed price at the time of the statement (read committed).
ScanPrice(id) == F64FromRatio(products[id].price, 100)

\* Failed, with the cause of the failure replaced by a generic error.
FailedGenericError(c, err) ==
  [call[c] EXCEPT !.pc = "done", !.txOrder = {}, !.txItems = {},
                  !.tx = "rolledback",
                  !.res = [ok |-> FALSE, err |-> "ErrOther", OrderID |-> None,
                           Total |-> F64Zero]]

\* Failed, without the deferred tx.Rollback(): the transaction stays open
\* when the call returns.
FailedNoRollback(c, err) ==
  [call[c] EXCEPT !.pc = "done",
                  !.res = [ok |-> FALSE, err |-> err, OrderID |-> None,
                           Total |-> F64Zero]]

\* The deferred tx.Rollback() of an early return.
Failed(c, err) ==
  [call[c] EXCEPT !.pc = "done", !.txOrder = {}, !.txItems = {},
                  !.tx = "rolledback",
                  !.res = [ok |-> FALSE, err |-> err, OrderID |-> None,
                           Total |-> F64Zero]]

\* A call of CreateOrder by one of the users with one of the requests, under
\* a context with or without a deadline:
\* s.db.BeginTx; orderID := uuid.New(); var totalAmount float64
\* (seen and attrs keep what the products were during the call.)
CreateOrderBeginContext(c, userIDs, requests, deadlines) ==
  /\ call[c].pc = "idle"
  /\ \E userID \in userIDs, req \in requests, deadline \in deadlines :
       call' = [call EXCEPT ![c] =
         [IdleCall EXCEPT !.pc = IF Len(req) = 0 THEN "insertOrder" ELSE "lookup",
                          !.userID = userID, !.req = req,
                          !.deadline = deadline,
                          !.tx = "open", !.txCount = 1,
                          !.seen = [p \in DOMAIN products |-> {products[p].price}],
                          !.attrs = [p \in DOMAIN products |->
                                       [title |-> products[p].title,
                                        category |-> products[p].category]]]]
  /\ UNCHANGED <<products, orders, order_items, reader, clock, priceChanges, listing,
               http, client>>

\* CreateOrderBegin, with a request without items rejected as a usage
\* error.
CreateOrderBeginRejectEmpty(c, userIDs, requests) ==
  /\ call[c].pc = "idle"
  /\ \E userID \in userIDs, req \in requests :
       call' = [call EXCEPT ![c] =
         IF Len(req) = 0
         THEN [Failed(c, "ErrInvalidRequest") EXCEPT !.userID = userID]
         ELSE [IdleCall EXCEPT !.pc = "lookup", !.userID = userID, !.req = req,
                               !.tx = "open", !.txCount = 1,
                               !.seen = [p \in DOMAIN products |-> {products[p].price}],
                               !.attrs = [p \in DOMAIN products |->
                                            [title |-> products[p].title,
                                             category |-> products[p].category]]]]
  /\ UNCHANGED <<products, orders, order_items, reader, clock, priceChanges, listing,
               http, client>>

\* A call of CreateOrder under the context of its HTTP request, which has
\* no deadline.
CreateOrderBegin(c, userIDs, requests) ==
  CreateOrderBeginContext(c, userIDs, requests, {FALSE})

\* CreateOrderLookup, with the running total kept in one place that all
\* calls share (here the totalAmount of call "c1").
CreateOrderLookupSharedTotal(c) ==
  /\ call[c].pc = "lookup"
  /\ LET item == call[c].req[call[c].i]
     IN  call' =
           IF item.ProductID \notin DOMAIN products
           THEN [call EXCEPT ![c] = Failed(c, "ErrNoRows")]
           ELSE [call EXCEPT
                   !["c1"].totalAmount =
                     F64Add(@, F64MulInt(F64FromRatio(products[item.ProductID].price, 100),
                                         item.Qty)),
                   ![c].i = IF @ = Len(call[c].req) THEN 1 ELSE @ + 1,
                   ![c].pc = IF call[c].i = Len(call[c].req)
                             THEN "insertOrder" ELSE "lookup"]
  /\ UNCHANGED <<products, orders, order_items, reader, clock, priceChanges, listing,
               http, client>>

\* One round of the first loop: look the price up, add price * qty.
CreateOrderLookup(c) ==
  /\ call[c].pc = "lookup"
  /\ LET item == call[c].req[call[c].i]
     IN  call' = [call EXCEPT ![c] =
           IF item.ProductID \notin DOMAIN products
           THEN Failed(c, "ErrNoRows")
           ELSE [call[c] EXCEPT
                   !.totalAmount = F64Add(@, F64MulInt(ScanPrice(item.ProductID), item.Qty)),
                   !.i = IF @ = Len(call[c].req) THEN 1 ELSE @ + 1,
                   !.pc = IF call[c].i = Len(call[c].req)
                          THEN "insertOrder" ELSE "lookup"]]
  /\ UNCHANGED <<products, orders, order_items, reader, clock, priceChanges, listing,
               http, client>>

\* CreateOrderInsertOrder, with the INSERT run on the connection pool
\* instead of the transaction: the row is committed at once.
CreateOrderInsertOrderAutocommit(c) ==
  /\ call[c].pc = "insertOrder"
  /\ call' = [call EXCEPT ![c] =
       [@ EXCEPT !.now = clock,
                 !.pc = IF Len(call[c].req) = 0 THEN "commit" ELSE "insertItems"]]
  /\ orders' = orders \cup
       {[id |-> c, user_id |-> call[c].userID,
         total_amount |-> NumericRound2(call[c].totalAmount),
         status |-> "pending", created_at |-> clock]}
  /\ clock' \in {clock, clock + 1}
  /\ UNCHANGED <<products, order_items, reader, priceChanges, listing,
               http, client>>

\* CreateOrderInsertOrder, with the order inserted as completed.
CreateOrderInsertOrderCompleted(c) ==
  /\ call[c].pc = "insertOrder"
  /\ call' = [call EXCEPT ![c] =
       [@ EXCEPT !.now = clock,
                 !.txOrder = {[id |-> c, user_id |-> call[c].userID,
                               total_amount |-> NumericRound2(call[c].totalAmount),
                               status |-> "completed", created_at |-> clock]},
                 !.pc = IF Len(call[c].req) = 0 THEN "commit" ELSE "insertItems"]]
  /\ clock' \in {clock, clock + 1}
  /\ UNCHANGED <<products, orders, order_items, reader, priceChanges, listing,
               http, client>>

\* now := time.Now(); INSERT INTO orders, inside the transaction.  The
\* clock may or may not have advanced before the next reading.
CreateOrderInsertOrder(c) ==
  /\ call[c].pc = "insertOrder"
  /\ call' = [call EXCEPT ![c] =
       [@ EXCEPT !.now = clock,
                 !.txOrder = {[id |-> c, user_id |-> call[c].userID,
                               total_amount |-> NumericRound2(call[c].totalAmount),
                               status |-> "pending", created_at |-> clock]},
                 !.pc = IF Len(call[c].req) = 0 THEN "commit" ELSE "insertItems"]]
  /\ clock' \in {clock, clock + 1}
  /\ UNCHANGED <<products, orders, order_items, reader, priceChanges, listing,
               http, client>>

\* CreateOrderInsertItem, with the product's stock_quantity decremented by
\* the quantity ordered.
CreateOrderInsertItemDecrementStock(c) ==
  /\ call[c].pc = "insertItems"
  /\ LET item == call[c].req[call[c].i]
     IN  /\ call' = [call EXCEPT ![c] =
               IF item.ProductID \notin DOMAIN products
               THEN Failed(c, "ErrNoRows")
               ELSE [call[c] EXCEPT
                       !.txItems = @ \cup
                         {[id |-> <<c, call[c].i>>, order_id |-> c,
                           product_id |-> item.ProductID, quantity |-> item.Qty,
                           price |-> NumericRound2(ScanPrice(item.ProductID)),
                           created_at |-> call[c].now]},
                       !.i = IF @ = Len(call[c].req) THEN 1 ELSE @ + 1,
                       !.pc = IF call[c].i = Len(call[c].req)
                              THEN "commit" ELSE "insertItems"]]
         /\ products' =
               IF item.ProductID \notin DOMAIN products THEN products
               ELSE [products EXCEPT ![item.ProductID].stock_quantity = @ - item.Qty]
  /\ UNCHANGED <<orders, order_items, reader, clock, priceChanges, listing, http, client>>

\* CreateOrderInsertItem, with the pairs of one product merged: a pair whose
\* product already has a row of this order adds its quantity to that row.
CreateOrderInsertItemMerged(c) ==
  /\ call[c].pc = "insertItems"
  /\ LET item == call[c].req[call[c].i]
         same == {it \in call[c].txItems : it.product_id = item.ProductID}
     IN  call' = [call EXCEPT ![c] =
           IF item.ProductID \notin DOMAIN products
           THEN Failed(c, "ErrNoRows")
           ELSE [call[c] EXCEPT
                   !.txItems =
                     IF same = {}
                     THEN @ \cup
                       {[id |-> <<c, call[c].i>>, order_id |-> c,
                         product_id |-> item.ProductID, quantity |-> item.Qty,
                         price |-> NumericRound2(ScanPrice(item.ProductID)),
                         created_at |-> call[c].now]}
                     ELSE (@ \ same) \cup
                       {[it EXCEPT !.quantity = @ + item.Qty] : it \in same},
                   !.i = IF @ = Len(call[c].req) THEN 1 ELSE @ + 1,
                   !.pc = IF call[c].i = Len(call[c].req)
                          THEN "commit" ELSE "insertItems"]]
  /\ UNCHANGED <<products, orders, order_items, reader, clock, priceChanges, listing,
               http, client>>

\* One round of the second loop: look the price up again, INSERT INTO
\* order_items with that price.
CreateOrderInsertItem(c) ==
  /\ call[c].pc = "insertItems"
  /\ LET item == call[c].req[call[c].i]
     IN  call' = [call EXCEPT ![c] =
           IF item.ProductID \notin DOMAIN products
           THEN Failed(c, "ErrNoRows")
           ELSE [call[c] EXCEPT
                   !.txItems = @ \cup
                     {[id |-> <<c, call[c].i>>, order_id |-> c,
                       product_id |-> item.ProductID, quantity |-> item.Qty,
                       price |-> NumericRound2(ScanPrice(item.ProductID)),
                       created_at |-> call[c].now]},
                   !.i = IF @ = Len(call[c].req) THEN 1 ELSE @ + 1,
                   !.pc = IF call[c].i = Len(call[c].req)
                          THEN "commit" ELSE "insertItems"]]
  /\ UNCHANGED <<products, orders, order_items, reader, clock, priceChanges, listing,
               http, client>>

\* tx.Commit() succeeds: the rows become visible together; the response
\* carries orderID and the float64 totalAmount.
CreateOrderCommit(c) ==
  /\ call[c].pc = "commit"
  /\ orders' = orders \cup call[c].txOrder
  /\ order_items' = order_items \cup call[c].txItems
  /\ call' = [call EXCEPT ![c] =
       [@ EXCEPT !.pc = "done", !.txOrder = {}, !.txItems = {},
                 !.tx = "committed",
                 !.res = [ok |-> TRUE, err |-> None, OrderID |-> c,
                          Total |-> call[c].totalAmount]]]
  /\ UNCHANGED <<products, reader, clock, priceChanges, listing,
               http, client>>

\* CreateOrderCommitFail, with the error of tx.Commit() not checked: the
\* call answers as if the order had been committed.
CreateOrderCommitFailUnchecked(c) ==
  /\ call[c].pc = "commit"
  /\ call' = [call EXCEPT ![c] =
       [@ EXCEPT !.pc = "done", !.txOrder = {}, !.txItems = {},
                 !.tx = "rolledback",
                 !.res = [ok |-> TRUE, err |-> None, OrderID |-> c,
                          Total |-> call[c].totalAmount]]]
  /\ UNCHANGED <<products, orders, order_items, reader, clock, priceChanges, listing,
               http, client>>

\* tx.Commit() returns an error: the store has aborted the transaction.
CreateOrderCommitFail(c) ==
  /\ call[c].pc = "commit"
  /\ call' = [call EXCEPT ![c] = Failed(c, "ErrCommit")]
  /\ UNCHANGED <<products, orders, order_items, reader, clock, priceChanges, listing,
               http, client>>

\* Another transaction commits a new price of a product.
ChangePrice(p, price) ==
  /\ priceChanges < MaxPriceChanges
  /\ price # products[p].price
  /\ products' = [products EXCEPT ![p].price = price]
  /\ priceChanges' = priceChanges + 1
  /\ call' = [c \in Calls |->
       IF call[c].pc \in {"idle", "done"} THEN call[c]
       ELSE [call[c] EXCEPT !.seen[p] = @ \cup {price}]]
  /\ UNCHANGED <<orders, order_items, reader, clock, listing, http, client>>

\* ---------------------------------------------------------------------
\* OrderService.GetUserOrders and getOrderItems
\* ---------------------------------------------------------------------

\* The sequences that hold every element of the set S once.
RECURSIVE Perms(_)
Perms(S) ==
  IF S = {} THEN {<<>>}
  ELSE UNION {{<<x>> \o s : s \in Perms(S \ {x})} : x \in S}

\* OrderByCreatedAtDesc, with the oldest row first.
OrderByCreatedAtAsc(S) ==
  {s \in Perms(S) : \A i, j \in 1..Len(s) : i < j => s[i].created_at <= s[j].created_at}

\* ORDER BY created_at DESC: rows of equal created_at come in any order.
OrderByCreatedAtDesc(S) ==
  {s \in Perms(S) : \A i, j \in 1..Len(s) : i < j => s[i].created_at >= s[j].created_at}

\* rows.Scan of an orders row: the DECIMAL total_amount read as a float64.
ScanOrder(row) ==
  [ID |-> row.id, UserID |-> row.user_id,
   TotalAmount |-> F64FromRatio(row.total_amount, 100),
   Status |-> row.status, CreatedAt |-> row.created_at, Items |-> <<>>]

\* ScanOrderItem, with product.Price taken from the joined products row.
ScanOrderItemLivePrice(row) ==
  [ID |-> row.id, OrderID |-> row.order_id, ProductID |-> row.product_id,
   Quantity |-> row.quantity, Price |-> F64FromRatio(row.price, 100),
   Product |-> [ID |-> row.product_id,
                Price |-> F64FromRatio(products[row.product_id].price, 100),
                Title |-> products[row.product_id].title,
                Category |-> products[row.product_id].category]]

\* rows.Scan of a joined order_items row: the item's columns and the title
\* and category of the products row as it is now; product.Price is set from
\* the item's price.
ScanOrderItem(row) ==
  LET price == F64FromRatio(row.price, 100)
  IN  [ID |-> row.id, OrderID |-> row.order_id, ProductID |-> row.product_id,
       Quantity |-> row.quantity, Price |-> price,
       Product |-> [ID |-> row.product_id, Price |-> price,
                    Title |-> products[row.product_id].title,
                    Category |-> products[row.product_id].category]]

\* SELECT ... FROM order_items oi JOIN products p ON oi.product_id = p.id
\* WHERE oi.order_id = $1, no ORDER BY: the matching rows in any order.
getOrderItems(orderID) ==
  LET rows == {it \in order_items :
                 it.order_id = orderID /\ it.product_id \in DOMAIN products}
  IN  {[n \in 1..Len(s) |-> ScanOrderItem(s[n])] : s \in Perms(rows)}

\* SELECT ... FROM orders o WHERE o.user_id = $1 ORDER BY o.created_at DESC
GetUserOrdersQuery(r, userID) ==
  /\ reader[r].pc = "idle"
  /\ \E rows \in OrderByCreatedAtDesc({o \in orders : o.user_id = userID}) :
       reader' = [reader EXCEPT ![r] =
         [IdleReader EXCEPT !.userID = userID, !.rows = rows,
                            !.snapshot = orders,
                            !.pc = IF Len(rows) = 0 THEN "done" ELSE "rows",
                            !.ok = Len(rows) = 0]]
  /\ UNCHANGED <<products, orders, order_items, call, clock, priceChanges, listing,
               http, client>>

\* One round of the rows.Next() loop: scan the order, fetch its items with
\* a query of its own, append.
GetUserOrdersNext(r) ==
  /\ reader[r].pc = "rows"
  /\ LET order == ScanOrder(reader[r].rows[reader[r].k])
     IN  \E items \in getOrderItems(order.ID) :
           reader' = [reader EXCEPT ![r] =
             [@ EXCEPT !.orders = Append(@, [order EXCEPT !.Items = items]),
                       !.k = IF @ = Len(reader[r].rows) THEN 1 ELSE @ + 1,
                       !.pc = IF reader[r].k = Len(reader[r].rows)
                              THEN "done" ELSE "rows",
                       !.ok = reader[r].k = Len(reader[r].rows)]]
  /\ UNCHANGED <<products, orders, order_items, call, clock, priceChanges, listing,
               http, client>>

\* One CreateOrder call (of user "u1": the users are interchangeable), the
\* price updates of other transactions and one GetUserOrders call of any
\* user, in every interleaving of their store operations.
Next ==
  \/ CreateOrderBegin("c1", {"u1"}, CreateOrderRequests)
  \/ CreateOrderLookup("c1")
  \/ CreateOrderInsertOrder("c1")
  \/ CreateOrderInsertItem("c1")
  \/ CreateOrderCommit("c1")
  \/ CreateOrderCommitFail("c1")
  \/ \E p \in DOMAIN products, price \in PriceSet : ChangePrice(p, price)
  \/ \E r \in Readers, userID \in Users : GetUserOrdersQuery(r, userID)
  \/ \E r \in Readers : GetUserOrdersNext(r)

Spec == Init /\ [][Next]_vars

\* Requests that name the same product in every pair.
SameProductRequests ==
  {req \in CreateOrderRequests : \A n \in 1..Len(req) : req[n].ProductID = "p1"}

\* Two concurrent CreateOrder calls for the same product and one
\* GetUserOrders call, in every interleaving of their store operations.
NextConcurrent ==
  \/ \E c \in Calls : CreateOrderBegin(c, Users, SameProductRequests)
  \/ \E c \in Calls : CreateOrderLookup(c)
  \/ \E c \in Calls : CreateOrderInsertOrder(c)
  \/ \E c \in Calls : CreateOrderInsertItem(c)
  \/ \E c \in Calls : CreateOrderCommit(c)
  \/ \E c \in Calls : CreateOrderCommitFail(c)
  \/ \E r \in Readers, userID \in Users : GetUserOrdersQuery(r, userID)
  \/ \E r \in Readers : GetUserOrdersNext(r)

SpecConcurrent == Init /\ [][NextConcurrent]_vars

\* ---------------------------------------------------------------------
\* ProductService.GetProducts
\* ---------------------------------------------------------------------
MaxTextLen == 2

MaxDescriptionLen == 1

MaxLimit == 2

\* Text is a sequence of characters; the wildcards of LIKE are among them.
Chars == {"a", "A", "%", "_"}

Texts == SeqsUpTo(Chars, MaxTextLen)

Descriptions == SeqsUpTo(Chars, MaxDescriptionLen)

Categories == {"food", "toys"}

ProductFilters ==
  [Query : Texts, Category : Categories \cup {""},
   Limit : -1..MaxLimit, Offset : -1..MaxLimit]

Lower(t) == [n \in 1..Len(t) |-> IF t[n] = "A" THEN "a" ELSE t[n]]

\* The LIKE operator of the store: % matches any run of characters, _ any
\* one character, every other character itself.
RECURSIVE Like(_, _)
Like(t, pattern) ==
  IF pattern = <<>> THEN t = <<>>
  ELSE IF Head(pattern) = "%"
       THEN Like(t, Tail(pattern)) \/ (t # <<>> /\ Like(Tail(t), pattern))
       ELSE /\ t # <<>>
            /\ Head(pattern) = "_" \/ Head(pattern) = Head(t)
            /\ Like(Tail(t), Tail(pattern))

\* ILIKE: LIKE without regard to case.
ILike(t, pattern) == Like(Lower(t), Lower(pattern))

\* The WHERE clause GetProducts builds: (title ILIKE $n OR description
\* ILIKE $n) with the argument "%" + Query + "%" when Query is not empty,
\* AND category = $m when Category is not empty.
WhereClause(row, filter) ==
  /\ filter.Query # <<>> =>
       LET arg == <<"%">> \o filter.Query \o <<"%">>
       IN  ILike(row.title, arg) \/ ILike(row.description, arg)
  /\ filter.Category # "" => row.category = filter.Category

\* LimitOffset, with LIMIT and OFFSET added to the query whenever they are
\* not negative: LIMIT 0 then returns no row.
LimitOffsetUnconditional(rows, filter) ==
  LET skip == IF filter.Offset >= 0 THEN filter.Offset ELSE 0
      rest == SubSeq(rows, skip + 1, Len(rows))
  IN  IF filter.Limit >= 0 /\ filter.Limit < Len(rest)
      THEN SubSeq(rest, 1, filter.Limit) ELSE rest

\* LIMIT and OFFSET, each added to the query only when it is positive.
LimitOffset(rows, filter) ==
  LET skip == IF filter.Offset > 0 THEN filter.Offset ELSE 0
      rest == SubSeq(rows, skip + 1, Len(rows))
  IN  IF filter.Limit > 0 /\ filter.Limit < Len(rest)
      THEN SubSeq(rest, 1, filter.Limit) ELSE rest

\* rows.Scan of a products row.
ScanProduct(id) ==
  [ID |-> id, Title |-> products[id].title,
   Price |-> F64FromRatio(products[id].price, 100),
   Category |-> products[id].category, Description |-> products[id].description,
   StockQuantity |-> products[id].stock_quantity,
   CreatedAt |-> products[id].created_at]

GetProducts(filter) ==
  /\ ~listing.done
  /\ \E rows \in OrderByCreatedAtDesc(
         {[id |-> id, created_at |-> products[id].created_at] :
            id \in {p \in DOMAIN products : WhereClause(products[p], filter)}}) :
       LET page == LimitOffset(rows, filter)
       IN  listing' = [done |-> TRUE, filter |-> filter,
                       products |-> [n \in 1..Len(page) |-> ScanProduct(page[n].id)],
                       err |-> None, rowsErr |-> FALSE]
  /\ UNCHANGED <<products, orders, order_items, call, reader, clock, priceChanges,
               http, client>>

\* The catalog: product p1 with any title and description, product p2 as
\* seeded.
InitCatalog ==
  /\ \E title \in Texts, description \in Descriptions :
       products = [InitProducts EXCEPT !["p1"].title = title,
                                       !["p1"].description = description]
  /\ orders = {}
  /\ order_items = {}
  /\ call = [c \in Calls |-> IdleCall]
  /\ reader = [r \in Readers |-> IdleReader]
  /\ clock = 2
  /\ priceChanges = 0
  /\ listing = NoListing
  /\ http = NoExchange
  /\ InitClient

NextCatalog == \E filter \in ProductFilters : GetProducts(filter)

SpecCatalog == InitCatalog /\ [][NextCatalog]_vars

\* ---------------------------------------------------------------------
\* Repeated reads
\* ---------------------------------------------------------------------

\* The client calls getMyOrders a second time: the answer of the first call
\* is kept aside and GetUserOrders runs again.
OrdersAgain(r) ==
  /\ reader[r].pc = "done"
  /\ earlier.reader.pc = "idle"
  /\ earlier' = [earlier EXCEPT !.reader = reader[r]]
  /\ reader' = [reader EXCEPT ![r] = IdleReader]
  /\ UNCHANGED <<products, orders, order_items, call, clock, priceChanges, listing,
                 http, users, auth, home, cart, checkout, seed>>

\* The client calls getProducts a second time: the answer of the first call
\* is kept aside and GetProducts runs again.
ListAgain ==
  /\ listing.done
  /\ ~earlier.listing.done
  /\ earlier' = [earlier EXCEPT !.listing = listing]
  /\ listing' = NoListing
  /\ UNCHANGED <<products, orders, order_items, call, reader, clock, priceChanges,
                 http, users, auth, home, cart, checkout, seed>>

\* The filters of the repeated listing: none, and the first product only.
RepeatedFilters == {NoFilter, [NoFilter EXCEPT !.Limit = 1]}

\* One CreateOrder call and the reads of one client, each made twice.
NextReads ==
  \/ CreateOrderBegin("c1", {"u1"}, SameProductRequests)
  \/ CreateOrderLookup("c1")
  \/ CreateOrderInsertOrder("c1")
  \/ CreateOrderInsertItem("c1")
  \/ CreateOrderCommit("c1")
  \/ \E r \in Readers : GetUserOrdersQuery(r, "u1")
  \/ \E r \in Readers : GetUserOrdersNext(r)
  \/ \E r \in Readers : OrdersAgain(r)
  \/ \E filter \in RepeatedFilters : GetProducts(filter)
  \/ ListAgain

SpecReads == Init /\ [][NextReads]_vars

\* ---------------------------------------------------------------------
\* The store: failed queries, a silent connection, edited products
\* ---------------------------------------------------------------------

\* s.db.QueryContext of GetUserOrders fails: return nil, err.
GetUserOrdersQueryErr(r, userID) ==
  /\ reader[r].pc = "idle"
  /\ reader' = [reader EXCEPT ![r] =
       [IdleReader EXCEPT !.userID = userID, !.snapshot = orders,
                          !.pc = "done", !.ok = FALSE]]
  /\ UNCHANGED <<products, orders, order_items, call, clock, priceChanges, listing,
               http, client>>

\* The store fails while the orders' rows are fetched: rows.Next() returns
\* false, the loop ends and, rows.Err() not being consulted, the orders
\* read so far are returned with a nil error.
GetUserOrdersRowsErr(r) ==
  /\ reader[r].pc = "rows"
  /\ reader' = [reader EXCEPT ![r] =
       [@ EXCEPT !.pc = "done", !.ok = TRUE, !.rowsErr = TRUE]]
  /\ UNCHANGED <<products, orders, order_items, call, clock, priceChanges, listing,
               http, client>>

\* s.db.QueryContext of getOrderItems fails: GetUserOrders returns nil, err.
GetUserOrdersItemsQueryErr(r) ==
  /\ reader[r].pc = "rows"
  /\ reader' = [reader EXCEPT ![r] =
       [@ EXCEPT !.pc = "done", !.ok = FALSE, !.orders = <<>>]]
  /\ UNCHANGED <<products, orders, order_items, call, clock, priceChanges, listing,
               http, client>>

\* One round of the rows.Next() loop in which the store fails while the
\* items' rows are fetched: getOrderItems returns the items read so far
\* with a nil error, and the loop goes on.
GetUserOrdersItemsRowsErr(r) ==
  /\ reader[r].pc = "rows"
  /\ LET order == ScanOrder(reader[r].rows[reader[r].k])
     IN  \E all \in getOrderItems(order.ID) :
           \E n \in 0..(Len(all) - 1) :
             reader' = [reader EXCEPT ![r] =
               [@ EXCEPT !.orders = Append(@, [order EXCEPT !.Items = SubSeq(all, 1, n)]),
                         !.rowsErr = TRUE,
                         !.k = IF @ = Len(reader[r].rows) THEN 1 ELSE @ + 1,
                         !.pc = IF reader[r].k = Len(reader[r].rows)
                                THEN "done" ELSE "rows",
                         !.ok = reader[r].k = Len(reader[r].rows)]]
  /\ UNCHANGED <<products, orders, order_items, call, clock, priceChanges, listing,
               http, client>>

\* s.db.QueryContext of GetProducts fails: return nil, err.
GetProductsQueryErr(filter) ==
  /\ ~listing.done
  /\ listing' = [done |-> TRUE, filter |-> filter, products |-> <<>>,
                 err |-> "ErrQuery", rowsErr |-> FALSE]
  /\ UNCHANGED <<products, orders, order_items, call, reader, clock, priceChanges,
               http, client>>

\* The store fails while the products' rows are fetched: rows.Next() returns
\* false and the products read so far are returned with a nil error.
GetProductsRowsErr(filter) ==
  /\ ~listing.done
  /\ \E rows \in OrderByCreatedAtDesc(
         {[id |-> id, created_at |-> products[id].created_at] :
            id \in {p \in DOMAIN products : WhereClause(products[p], filter)}}) :
       LET page == LimitOffset(rows, filter)
       IN  \E n \in 0..(Len(page) - 1) :
             listing' = [done |-> TRUE, filter |-> filter,
                         products |-> [k \in 1..n |-> ScanProduct(page[k].id)],
                         err |-> None, rowsErr |-> TRUE]
  /\ UNCHANGED <<products, orders, order_items, call, reader, clock, priceChanges,
               http, client>>

\* The title a product is renamed to.
NewTitle == <<"A", "a">>

\* Another transaction commits a new title or category of a product that
\* has not been edited yet.  (attrs of the running calls follows.)
UpdateProduct(p, title, category) ==
  /\ products[p].title = InitProducts[p].title
  /\ products[p].category = InitProducts[p].category
  /\ title # products[p].title \/ category # products[p].category
  /\ products' = [products EXCEPT ![p].title = title, ![p].category = category]
  /\ call' = [c \in Calls |->
       IF call[c].pc \in {"idle", "done"} THEN call[c]
       ELSE [call[c] EXCEPT !.attrs[p] = [title |-> title, category |-> category]]]
  /\ UNCHANGED <<orders, order_items, reader, clock, priceChanges, listing, http, client>>

\* The statements of CreateOrder that wait for an answer of the store.
RoundTrips == {"lookup", "insertOrder", "insertItems", "commit"}

\* The store stops answering: the round trip the call is in gets no answer.
StoreSilent(c) ==
  /\ call[c].pc \in RoundTrips
  /\ call' = [call EXCEPT ![c] = [@ EXCEPT !.pc = "hung", !.at = call[c].pc]]
  /\ UNCHANGED <<products, orders, order_items, reader, clock, priceChanges, listing,
               http, client>>

\* The deadline of the context passes while a QueryRowContext or
\* ExecContext waits: the statement returns the context's error and
\* CreateOrder returns it.  tx.Commit() takes no context.
CreateOrderDeadline(c) ==
  /\ call[c].pc = "hung"
  /\ call[c].deadline
  /\ call[c].at # "commit"
  /\ call' = [call EXCEPT ![c] = Failed(c, "ErrDeadlineExceeded")]
  /\ UNCHANGED <<products, orders, order_items, reader, clock, priceChanges, listing,
               http, client>>

\* A QueryRowContext or ExecContext of CreateOrder returns an error of the
\* store: the call returns it (return nil, err) and the deferred rollback
\* runs.
CreateOrderStatementErr(c) ==
  /\ call[c].pc \in {"lookup", "insertOrder", "insertItems"}
  /\ call' = [call EXCEPT ![c] = Failed(c, "ErrStatement")]
  /\ UNCHANGED <<products, orders, order_items, reader, clock, priceChanges, listing,
               http, client>>

\* One CreateOrder call for product p1, one GetUserOrders call and one
\* GetProducts call, against a store that may fail a query, fail while rows
\* are fetched or stop answering, while product p1 may be edited.
NextStore ==
  \/ CreateOrderBeginContext("c1", {"u1"}, SameProductRequests, BOOLEAN)
  \/ CreateOrderLookup("c1")
  \/ CreateOrderInsertOrder("c1")
  \/ CreateOrderInsertItem("c1")
  \/ CreateOrderCommit("c1")
  \/ CreateOrderCommitFail("c1")
  \/ StoreSilent("c1")
  \/ CreateOrderDeadline("c1")
  \/ CreateOrderStatementErr("c1")
  \/ \E category \in Categories :
       \E title \in {InitProducts["p1"].title, NewTitle} :
         UpdateProduct("p1", title, category)
  \/ \E r \in Readers : GetUserOrdersQuery(r, "u1")
  \/ \E r \in Readers : GetUserOrdersNext(r)
  \/ \E r \in Readers : GetUserOrdersQueryErr(r, "u1")
  \/ \E r \in Readers : GetUserOrdersRowsErr(r)
  \/ \E r \in Readers : GetUserOrdersItemsQueryErr(r)
  \/ \E r \in Readers : GetUserOrdersItemsRowsErr(r)
  \/ GetProducts(NoFilter)
  \/ GetProductsQueryErr(NoFilter)
  \/ GetProductsRowsErr(NoFilter)

SpecStore == Init /\ [][NextStore]_vars

\* ---------------------------------------------------------------------
\* NewRouter, JWTAuthMiddleware and the handlers
\* ---------------------------------------------------------------------
Routes ==
  {"POST /api/auth/register", "POST /api/auth/login", "GET /api/products",
   "GET /api/products/:id", "POST /api/orders", "GET /api/orders/my"}

\* The routes of the group that carries JWTAuthMiddleware.
ProtectedRoutes == {"POST /api/orders", "GET /api/orders/my"}

Handler(route) ==
  CASE route = "POST /api/auth/register" -> "authHandler.Register"
    [] route = "POST /api/auth/login"    -> "authHandler.Login"
    [] route = "GET /api/products"       -> "productHandler.GetProducts"
    [] route = "GET /api/products/:id"   -> "productHandler.GetProduct"
    [] route = "POST /api/orders"        -> "orderHandler.CreateOrder"
    [] route = "GET /api/orders/my"      -> "orderHandler.GetMyOrders"

\* The secret the tokens are signed with (JWT_SECRET).
JWTSecret == "devsecret"

\* A token: the user_id claim, the key of its signature, and whether its
\* exp claim has passed.
Tokens == [user_id : Users, key : {JWTSecret, "forged"}, expired : BOOLEAN]

\* A request without Authorization header.
NoAuthorization == [user_id |-> None, key |-> "", expired |-> FALSE]

Authorizations == Tokens \cup {NoAuthorization}

\* JWTAuthMiddleware, with the token's claims read without verifying the
\* token.
JWTAuthMiddlewareUnverified(authorization) ==
  IF authorization.key = ""
  THEN [next |-> FALSE, status |-> 401, userID |-> None]
  ELSE [next |-> TRUE, status |-> 0, userID |-> authorization.user_id]

\* No header: 401 and Abort.  jwt.Parse fails or the token is not valid:
\* 401 and Abort.  Otherwise userID is set from the claims and the chain
\* goes on.
JWTAuthMiddleware(authorization) ==
  IF authorization.key = ""
  THEN [next |-> FALSE, status |-> 401, userID |-> None]
  ELSE IF authorization.key # JWTSecret \/ authorization.expired
       THEN [next |-> FALSE, status |-> 401, userID |-> None]
       ELSE [next |-> TRUE, status |-> 0, userID |-> authorization.user_id]

\* The :id parameter of a request: a product's id, an id no product has,
\* or text that is no UUID.
InvalidID == "not-a-uuid"

LookupIDs == RequestIDs \cup {InvalidID}

\* The JSON body of POST /api/orders bound to CreateOrderRequest: Items is
\* nil when the body has no items, else the items with any integer qty.
RawItemRequests == [ProductID : {"p1"}, Qty : -1..MaxQty]

NoBody == [isNil |-> TRUE, Items |-> <<>>]

Bodies == {NoBody} \cup {[isNil |-> FALSE, Items |-> items] :
                           items \in SeqsUpTo(RawItemRequests, MaxItems)}

HTTPRequests ==
  {req \in [route : Routes, authorization : Authorizations,
            id : LookupIDs \cup {None}, body : Bodies] :
     /\ req.id # None <=> req.route = "GET /api/products/:id"
     /\ req.body # NoBody => req.route = "POST /api/orders"}

\* The router: the middleware of the route's group, then its handler.
ServeHTTP(req) ==
  /\ http.pc = "idle"
  /\ LET gate == IF req.route \in ProtectedRoutes
                 THEN JWTAuthMiddleware(req.authorization)
                 ELSE [next |-> TRUE, status |-> 0, userID |-> None]
     IN  http' = [NoExchange EXCEPT
                    !.pc = IF gate.next THEN "handler" ELSE "done",
                    !.route = req.route,
                    !.authorization = req.authorization,
                    !.id = req.id,
                    !.body = req.body,
                    !.handler = IF gate.next THEN Handler(req.route) ELSE None,
                    !.userID = gate.userID,
                    !.status = gate.status]
  /\ UNCHANGED <<products, orders, order_items, call, reader, clock, priceChanges,
               listing, client>>

\* ProductService.GetProduct: the product's row, or "product not found" for
\* any error of the query: no row, or a failure of the store (storeErr).
GetProduct(id, storeErr) ==
  IF storeErr \/ id \notin DOMAIN products
  THEN [ok |-> FALSE, err |-> "product not found"]
  ELSE [ok |-> TRUE, err |-> None]

\* ProductHandler.GetProduct: 400 for an id that is no UUID, 404 for the
\* error "product not found", 500 for any other error, else 200 with the
\* product.
ProductHandlerGetProduct ==
  /\ http.pc = "handler"
  /\ http.handler = "productHandler.GetProduct"
  /\ \E storeErr \in BOOLEAN :
       http' =
         IF http.id = InvalidID
         THEN [http EXCEPT !.pc = "done", !.status = 400]
         ELSE LET res == GetProduct(http.id, storeErr)
              IN  [http EXCEPT
                     !.pc = "done",
                     !.storeErr = storeErr,
                     !.status = IF res.ok THEN 200
                                ELSE IF res.err = "product not found" THEN 404
                                ELSE 500,
                     !.product = IF res.ok THEN ScanProduct(http.id) ELSE None]
  /\ UNCHANGED <<products, orders, order_items, call, reader, clock, priceChanges,
               listing, client>>

\* BindingValid, with the tags of Qty left out.
BindingValidNoQtyTags(body) == ~body.isNil

\* The binding tags of CreateOrderRequest: Items required (not nil) and
\* dive; of OrderItemRequest: Qty required (not zero) and min=1.
BindingValid(body) ==
  /\ ~body.isNil
  /\ \A n \in 1..Len(body.Items) :
       body.Items[n].Qty # 0 /\ body.Items[n].Qty >= 1

\* The handler of POST /api/orders: binds the body, answers 400 when the
\* binding fails, else calls CreateOrder for the user of the token.
OrderHandlerCreateOrder(c) ==
  /\ http.pc = "handler"
  /\ http.handler = "orderHandler.CreateOrder"
  /\ call[c].pc = "idle"
  /\ IF BindingValid(http.body)
     THEN CreateOrderBegin(c, {http.userID}, {http.body.Items})
     ELSE /\ call' = [call EXCEPT ![c] =
                 [Failed(c, "ErrBinding") EXCEPT !.userID = http.userID,
                                                !.req = http.body.Items,
                                                !.tx = "none"]]
          /\ UNCHANGED <<products, orders, order_items, reader, clock,
                         priceChanges, listing, http, client>>

\* The handler of GET /api/orders/my: calls GetUserOrders for the user of
\* the token.
OrderHandlerGetMyOrders(r) ==
  /\ http.pc = "handler"
  /\ http.handler = "orderHandler.GetMyOrders"
  /\ GetUserOrdersQuery(r, http.userID)

\* One HTTP exchange: any request through the router, and the handlers of
\* the product lookup and of the order routes.
NextHttp ==
  \/ \E req \in HTTPRequests : ServeHTTP(req)
  \/ ProductHandlerGetProduct
  \/ OrderHandlerCreateOrder("c1")
  \/ CreateOrderLookup("c1")
  \/ CreateOrderInsertOrder("c1")
  \/ CreateOrderInsertItem("c1")
  \/ CreateOrderCommit("c1")
  \/ CreateOrderCommitFail("c1")
  \/ \E r \in Readers : OrderHandlerGetMyOrders(r)

SpecHttp == Init /\ [][NextHttp]_vars

\* ---------------------------------------------------------------------
\* AuthService.RegisterUser, AuthService.LoginUser and their handlers
\* ---------------------------------------------------------------------
Emails == {"e1", "e2"}

Passwords == {"pw1", "pw2"}

\* bcrypt.GenerateFromPassword: a hash that only its password matches.
GenerateFromPassword(password) == [bcrypt |-> password]

\* bcrypt.CompareHashAndPassword
CompareHashAndPassword(hash, password) == hash.bcrypt = password

\* AuthHandler.Register: the answer for the outcome of RegisterUser.
AuthHandlerRegister(a, err) ==
  IF err = None
  THEN [auth[a] EXCEPT !.pc = "done", !.status = 201, !.user = a]
  ELSE IF err = "user already exists"
       THEN [auth[a] EXCEPT !.pc = "done", !.err = err, !.status = 409,
                            !.message = "Email already registered"]
       ELSE [auth[a] EXCEPT !.pc = "done", !.err = err, !.status = 500,
                            !.message = "Failed to register user"]

\* AuthHandler.Login: the answer for the outcome of LoginUser.
AuthHandlerLogin(a, err, user) ==
  IF err = None
  THEN [auth[a] EXCEPT !.pc = "done", !.status = 200, !.user = user.id,
                       !.token = [user_id |-> user.id, key |-> JWTSecret,
                                  expired |-> FALSE]]
  ELSE IF err = "invalid credentials"
       THEN [auth[a] EXCEPT !.pc = "done", !.err = err, !.status = 401,
                            !.message = "Invalid email or password"]
       ELSE [auth[a] EXCEPT !.pc = "done", !.err = err, !.status = 500,
                            !.message = "Failed to login"]

\* RegisterUser, first statement: SELECT EXISTS(SELECT 1 FROM users WHERE
\* email = $1); an existing email ends the call with "user already exists".
RegisterUserExists(a, email, password) ==
  /\ auth[a].pc = "idle"
  /\ LET started == [auth EXCEPT ![a] =
                       [IdleAuth EXCEPT !.op = "register", !.email = email,
                                        !.password = password, !.pc = "insert"]]
     IN  auth' = IF \E u \in users : u.email = email
                 THEN [started EXCEPT ![a] =
                         [AuthHandlerRegister(a, "user already exists") EXCEPT
                            !.op = "register", !.email = email,
                            !.password = password]]
                 ELSE started
  /\ UNCHANGED <<shop, earlier, users, home, cart, checkout, seed>>

\* RegisterUser, second statement: INSERT INTO users, a statement of its
\* own on the pool.  The UNIQUE constraint of users.email refuses a second
\* row of the same email; the error of the store is returned as it is.
RegisterUserInsert(a) ==
  /\ auth[a].pc = "insert"
  /\ IF \E u \in users : u.email = auth[a].email
     THEN /\ auth' = [auth EXCEPT ![a] = AuthHandlerRegister(a, "ErrUniqueViolation")]
          /\ UNCHANGED users
     ELSE /\ users' = users \cup
               {[id |-> a, email |-> auth[a].email,
                 password_hash |-> GenerateFromPassword(auth[a].password)]}
          /\ auth' = [auth EXCEPT ![a] = AuthHandlerRegister(a, None)]
  /\ UNCHANGED <<shop, earlier, home, cart, checkout, seed>>

\* LoginUser, with an unknown email told apart from a wrong password.
LoginUserRevealing(a, email, password) ==
  /\ auth[a].pc = "idle"
  /\ LET found == {u \in users : u.email = email}
         began == [auth EXCEPT ![a] =
                     [IdleAuth EXCEPT !.op = "login", !.email = email,
                                      !.password = password]]
     IN  auth' = [began EXCEPT ![a] =
           [(IF found = {}
             THEN AuthHandlerLogin(a, "user not found", None)
             ELSE LET user == CHOOSE u \in found : TRUE
                  IN  IF CompareHashAndPassword(user.password_hash, password)
                      THEN AuthHandlerLogin(a, None, user)
                      ELSE AuthHandlerLogin(a, "invalid credentials", None))
            EXCEPT !.op = "login", !.email = email, !.password = password]]
  /\ UNCHANGED <<shop, earlier, users, home, cart, checkout, seed>>

\* LoginUser: SELECT ... FROM users WHERE email = $1; no row, or a password
\* that the hash does not match, is "invalid credentials"; else the token.
LoginUser(a, email, password) ==
  /\ auth[a].pc = "idle"
  /\ LET found == {u \in users : u.email = email}
         began == [auth EXCEPT ![a] =
                     [IdleAuth EXCEPT !.op = "login", !.email = email,
                                      !.password = password]]
     IN  auth' = [began EXCEPT ![a] =
           [(IF found = {}
             THEN AuthHandlerLogin(a, "invalid credentials", None)
             ELSE LET user == CHOOSE u \in found : TRUE
                  IN  IF CompareHashAndPassword(user.password_hash, password)
                      THEN AuthHandlerLogin(a, None, user)
                      ELSE AuthHandlerLogin(a, "invalid credentials", None))
            EXCEPT !.op = "login", !.email = email, !.password = password]]
  /\ UNCHANGED <<shop, earlier, users, home, cart, checkout, seed>>

\* Three calls of the account routes, each a registration or a login, in
\* every interleaving of their statements.
NextAuth ==
  \/ \E a \in AuthCalls, email \in Emails, password \in Passwords :
       RegisterUserExists(a, email, password)
  \/ \E a \in AuthCalls : RegisterUserInsert(a)
  \/ \E a \in AuthCalls, email \in Emails, password \in Passwords :
       LoginUser(a, email, password)

SpecAuth == Init /\ [][NextAuth]_vars

\* ---------------------------------------------------------------------
\* The Home page of the web client
\* ---------------------------------------------------------------------
MaxFetches == 3

\* The search texts typed into the Home page.
SearchQueries == {<<>>, <<"a">>}

\* The requests of the Home page: the n-th fetchProducts, with its search
\* text and category.
HomeRequests ==
  [n : 1..MaxFetches, query : SearchQueries, category : Categories \cup {""}]

\* GET /api/products?q=..&category=..: the answers GetProducts can give to
\* the query string that goApiClient.getProducts builds.
GetProductsResponses(query, category) ==
  LET filter == [NoFilter EXCEPT !.Query = query, !.Category = category]
      rows == OrderByCreatedAtDesc(
                {[id |-> id, created_at |-> products[id].created_at] :
                   id \in {p \in DOMAIN products : WhereClause(products[p], filter)}})
  IN  {LET page == LimitOffset(r, filter)
       IN  [n \in 1..Len(page) |-> ScanProduct(page[n].id)] : r \in rows}

\* fetchProducts up to its await: setLoading(true) and the request sent
\* with the search text and the category of this render.
FetchProductsSend(h) ==
  [h EXCEPT !.loading = TRUE,
            !.fetches = @ + 1,
            !.inflight = @ \cup {[n |-> h.fetches + 1, query |-> h.searchQuery,
                                  category |-> h.selectedCategory]}]

\* The first render: the effect runs fetchProducts.
HomeMount ==
  /\ ~home.mounted
  /\ home' = FetchProductsSend([home EXCEPT !.mounted = TRUE])
  /\ UNCHANGED <<shop, earlier, users, auth, cart, checkout, seed>>

\* onChange of the search box: setSearchQuery; the effect runs
\* fetchProducts because searchQuery has changed.
HomeSetSearchQuery(query) ==
  /\ home.mounted
  /\ home.fetches < MaxFetches
  /\ query # home.searchQuery
  /\ home' = FetchProductsSend([home EXCEPT !.searchQuery = query])
  /\ UNCHANGED <<shop, earlier, users, auth, cart, checkout, seed>>

\* onChange of the category select: setSelectedCategory; the effect runs
\* fetchProducts because selectedCategory has changed.
HomeSetSelectedCategory(category) ==
  /\ home.mounted
  /\ home.fetches < MaxFetches
  /\ category # home.selectedCategory
  /\ home' = FetchProductsSend([home EXCEPT !.selectedCategory = category])
  /\ UNCHANGED <<shop, earlier, users, auth, cart, checkout, seed>>

\* The answer of a request arrives, of any request in flight:
\* setProducts(data); setError(null); finally setLoading(false).
FetchProductsResolve(req) ==
  /\ req \in home.inflight
  /\ \E data \in GetProductsResponses(req.query, req.category) :
       home' = [home EXCEPT !.inflight = @ \ {req}, !.products = data,
                            !.error = None, !.loading = FALSE]
  /\ UNCHANGED <<shop, earlier, users, auth, cart, checkout, seed>>

\* A request fails (request throws): setError(message); finally
\* setLoading(false).
FetchProductsReject(req) ==
  /\ req \in home.inflight
  /\ home' = [home EXCEPT !.inflight = @ \ {req},
                          !.error = "Failed to fetch products",
                          !.loading = FALSE]
  /\ UNCHANGED <<shop, earlier, users, auth, cart, checkout, seed>>

\* The Home page: the user edits the search text and the category while
\* requests are in flight; the answers arrive in any order.
NextHome ==
  \/ HomeMount
  \/ \E query \in SearchQueries : HomeSetSearchQuery(query)
  \/ \E category \in Categories \cup {""} : HomeSetSelectedCategory(category)
  \/ \E req \in HomeRequests : FetchProductsResolve(req)
  \/ \E req \in HomeRequests : FetchProductsReject(req)

SpecHome == Init /\ [][NextHome]_vars

\* ---------------------------------------------------------------------
\* The cart store and Cart.handleCheckout of the web client
\* ---------------------------------------------------------------------
MaxCartQty == 3

MaxCheckouts == 2

\* The quantities passed to updateQuantity: whole numbers, also none and
\* less than none.
CartQuantities == -1..MaxCartQty

\* The products shown to the user, by id.
CartProducts == {"p1", "p2"}

\* items.filter(item => item.id !== id)
RECURSIVE FilterOut(_, _)
FilterOut(items, id) ==
  IF items = <<>> THEN <<>>
  ELSE IF Head(items).id = id THEN FilterOut(Tail(items), id)
       ELSE <<Head(items)>> \o FilterOut(Tail(items), id)

\* addItem, with the product appended whether it is in the cart or not.
addItemAppend(id) ==
  /\ cart' = [cart EXCEPT !.items = Append(@, [id |-> id, quantity |-> 1])]
  /\ Len(cart.items) < MaxCartQty
  /\ UNCHANGED <<shop, earlier, users, auth, home, checkout, seed>>

\* addItem: a product of the cart gets quantity + 1, another product is
\* appended with quantity 1.
addItem(id) ==
  /\ \A n \in 1..Len(cart.items) : cart.items[n].quantity < MaxCartQty
  /\ cart' = [cart EXCEPT !.items =
       IF \E n \in 1..Len(cart.items) : cart.items[n].id = id
       THEN [n \in 1..Len(cart.items) |->
               IF cart.items[n].id = id
               THEN [cart.items[n] EXCEPT !.quantity = @ + 1]
               ELSE cart.items[n]]
       ELSE Append(cart.items, [id |-> id, quantity |-> 1])]
  /\ UNCHANGED <<shop, earlier, users, auth, home, checkout, seed>>

removeItem(id) ==
  /\ cart' = [cart EXCEPT !.items = FilterOut(@, id)]
  /\ UNCHANGED <<shop, earlier, users, auth, home, checkout, seed>>

\* updateQuantity: quantity <= 0 filters the item out, any other quantity
\* is set on the item of that id.
updateQuantity(id, quantity) ==
  /\ cart' = [cart EXCEPT !.items =
       IF quantity <= 0
       THEN FilterOut(cart.items, id)
       ELSE [n \in 1..Len(cart.items) |->
               IF cart.items[n].id = id
               THEN [cart.items[n] EXCEPT !.quantity = quantity]
               ELSE cart.items[n]]]
  /\ UNCHANGED <<shop, earlier, users, auth, home, checkout, seed>>

clearCart ==
  /\ cart' = EmptyCart
  /\ UNCHANGED <<shop, earlier, users, auth, home, checkout, seed>>

\* The - and + buttons of a cart line: handleQuantityChange(item.id,
\* item.quantity - 1 or + 1).
handleQuantityChange(n, step) ==
  /\ n \in 1..Len(cart.items)
  /\ LET id == cart.items[n].id
         newQuantity == cart.items[n].quantity + step
     IN  /\ newQuantity <= MaxCartQty
         /\ IF newQuantity < 1 THEN removeItem(id)
            ELSE updateQuantity(id, newQuantity)

\* useAuthStore.login and logout.
AuthStoreLogin ==
  /\ ~checkout.loggedIn
  /\ checkout' = [checkout EXCEPT !.loggedIn = TRUE]
  /\ UNCHANGED <<shop, earlier, users, auth, home, cart, seed>>

AuthStoreLogout ==
  /\ checkout.loggedIn
  /\ checkout' = [checkout EXCEPT !.loggedIn = FALSE]
  /\ UNCHANGED <<shop, earlier, users, auth, home, cart, seed>>

\* handleCheckout, with the cart cleared when the request is sent.
handleCheckoutClearFirst ==
  /\ checkout.pc = "idle"
  /\ checkout.requests < MaxCheckouts
  /\ IF ~checkout.loggedIn
     THEN /\ checkout' = [checkout EXCEPT !.outcome = "login"]
          /\ UNCHANGED cart
     ELSE IF Len(cart.items) = 0
          THEN /\ checkout' = [checkout EXCEPT !.outcome = "empty"]
               /\ UNCHANGED cart
          ELSE /\ checkout' = [checkout EXCEPT
                    !.pc = "sent", !.requests = @ + 1, !.outcome = None,
                    !.orderData = [n \in 1..Len(cart.items) |->
                                     [productId |-> cart.items[n].id,
                                      qty |-> cart.items[n].quantity]]]
               /\ cart' = EmptyCart
  /\ UNCHANGED <<shop, earlier, users, auth, home, seed>>

\* handleCheckout up to its await: without user or token, alert and go to
\* the profile; with an empty cart, alert; else send createOrder with the
\* items of the cart.
handleCheckout ==
  /\ checkout.pc = "idle"
  /\ checkout.requests < MaxCheckouts
  /\ checkout' =
       IF ~checkout.loggedIn THEN [checkout EXCEPT !.outcome = "login"]
       ELSE IF Len(cart.items) = 0 THEN [checkout EXCEPT !.outcome = "empty"]
       ELSE [checkout EXCEPT
               !.pc = "sent", !.requests = @ + 1, !.outcome = None,
               !.orderData = [n \in 1..Len(cart.items) |->
                                [productId |-> cart.items[n].id,
                                 qty |-> cart.items[n].quantity]]]
  /\ UNCHANGED <<shop, earlier, users, auth, home, cart, seed>>

\* createOrder has answered: alert, clearCart(), navigate('/orders').
handleCheckoutResolve ==
  /\ checkout.pc = "sent"
  /\ checkout' = [checkout EXCEPT !.pc = "idle", !.outcome = "success"]
  /\ cart' = EmptyCart
  /\ UNCHANGED <<shop, earlier, users, auth, home, seed>>

\* createOrder has thrown (no answer, or an answer that is not ok): the
\* catch block logs and alerts.
handleCheckoutReject ==
  /\ checkout.pc = "sent"
  /\ checkout' = [checkout EXCEPT !.pc = "idle", !.outcome = "failed"]
  /\ UNCHANGED <<shop, earlier, users, auth, home, cart, seed>>

\* The cart page: the user edits the cart, logs in and out and checks out;
\* the cart stays usable while createOrder is awaited.
NextCart ==
  \/ \E id \in CartProducts : addItem(id)
  \/ \E id \in CartProducts : removeItem(id)
  \/ \E id \in CartProducts, quantity \in CartQuantities : updateQuantity(id, quantity)
  \/ clearCart
  \/ \E n \in 1..MaxCartQty, step \in {-1, 1} : handleQuantityChange(n, step)
  \/ AuthStoreLogin
  \/ AuthStoreLogout
  \/ handleCheckout
  \/ handleCheckoutResolve
  \/ handleCheckoutReject

SpecCart == Init /\ [][NextCart]_vars

\* ---------------------------------------------------------------------
\* SeedProducts at server start
\* ---------------------------------------------------------------------
MaxRuns == 3

\* The products of seed_products.json: any list of these titles without
\* repetition.
SeedTitles == {<<"a">>, <<"A">>}

SeedFiles == {file \in SeqsUpTo(SeedTitles, Cardinality(SeedTitles)) :
                \A m, n \in 1..Len(file) : file[m] = file[n] => m = n}

\* The id the store gives the k-th row of a run.
SeedID(run, k) == "s" \o ToString(run) \o "-" \o ToString(k)

\* The row of a seed product; created_at is the store's clock.
SeedRow(title) ==
  [price |-> 10, title |-> title, category |-> "food", description |-> <<>>,
   stock_quantity |-> 5, created_at |-> clock]

\* SeedProductsStart, without the check of the count: the file is read and
\* inserted at every start.
SeedProductsStartNoCheck ==
  /\ seed.pc \in {"down", "up"}
  /\ seed.runs < MaxRuns
  /\ \E readable \in BOOLEAN :
       seed' = [seed EXCEPT
         !.runs = @ + 1, !.i = 1,
         !.pc = IF readable /\ Len(seed.file) > 0 THEN "inserting" ELSE "up",
         !.outcome = IF ~readable THEN "ErrReadFile"
                     ELSE IF Len(seed.file) > 0 THEN None ELSE "seeded"]
  /\ UNCHANGED <<shop, earlier, users, auth, home, cart, checkout>>

\* A server start runs SeedProducts: SELECT COUNT(*) FROM products; with a
\* row in the table it returns at once; else it reads the seed file, which
\* may fail, and goes on to insert.
SeedProductsStart ==
  /\ seed.pc \in {"down", "up"}
  /\ seed.runs < MaxRuns
  /\ \E readable \in BOOLEAN :
       seed' = [seed EXCEPT
         !.runs = @ + 1, !.i = 1,
         !.pc = IF Cardinality(DOMAIN products) > 0 THEN "up"
                ELSE IF readable /\ Len(seed.file) > 0 THEN "inserting" ELSE "up",
         !.outcome = IF Cardinality(DOMAIN products) > 0 THEN "skipped"
                     ELSE IF ~readable THEN "ErrReadFile"
                     ELSE IF Len(seed.file) > 0 THEN None ELSE "seeded"]
  /\ UNCHANGED <<shop, earlier, users, auth, home, cart, checkout>>

\* The count query fails: SeedProducts returns the error, main logs it and
\* the server starts.
SeedProductsCountErr ==
  /\ seed.pc \in {"down", "up"}
  /\ seed.runs < MaxRuns
  /\ seed' = [seed EXCEPT !.runs = @ + 1, !.i = 1, !.pc = "up",
                          !.outcome = "ErrCount"]
  /\ UNCHANGED <<shop, earlier, users, auth, home, cart, checkout>>

\* One round of the insert loop: INSERT INTO products, a statement of its
\* own on the pool.
SeedProductsInsert ==
  /\ seed.pc = "inserting"
  /\ LET id == SeedID(seed.runs, seed.i)
     IN  products' = [p \in DOMAIN products \cup {id} |->
                        IF p = id THEN SeedRow(seed.file[seed.i]) ELSE products[p]]
  /\ clock' = clock + 1
  /\ seed' = [seed EXCEPT
       !.i = @ + 1,
       !.pc = IF seed.i = Len(seed.file) THEN "up" ELSE "inserting",
       !.outcome = IF seed.i = Len(seed.file) THEN "seeded" ELSE None]
  /\ UNCHANGED <<orders, order_items, call, reader, priceChanges, listing, http,
                 earlier, users, auth, home, cart, checkout>>

\* An INSERT fails: SeedProducts returns the error; the rows inserted
\* before it stay.
SeedProductsInsertErr ==
  /\ seed.pc = "inserting"
  /\ seed' = [seed EXCEPT !.pc = "up", !.outcome = "ErrInsert"]
  /\ UNCHANGED <<shop, earlier, users, auth, home, cart, checkout>>

\* A database without products, or with the products of an earlier
\* deployment, and any seed file.
InitSeed ==
  /\ products \in {[p \in {} |-> SeedRow(<<>>)], InitProducts}
  /\ orders = {}
  /\ order_items = {}
  /\ call = [c \in Calls |-> IdleCall]
  /\ reader = [r \in Readers |-> IdleReader]
  /\ clock = 2
  /\ priceChanges = 0
  /\ listing = NoListing
  /\ http = NoExchange
  /\ earlier = NoEarlier
  /\ users = {}
  /\ auth = [a \in AuthCalls |-> IdleAuth]
  /\ home = NoHome
  /\ cart = EmptyCart
  /\ checkout = IdleCheckout
  /\ \E file \in SeedFiles : seed = [NoSeed EXCEPT !.file = file]

\* The server is started one time after another.
NextSeed ==
  \/ SeedProductsStart
  \/ SeedProductsCountErr
  \/ SeedProductsInsert
  \/ SeedProductsInsertErr

SpecSeed == InitSeed /\ [][NextSeed]_vars

\* ---------------------------------------------------------------------
\* Properties
\* ---------------------------------------------------------------------
OrderRows(id) == {o \in orders : o.id = id}

ItemRows(id) == {it \in order_items : it.order_id = id}

RECURSIVE ItemsAmount(_)
ItemsAmount(S) ==
  IF S = {} THEN 0
  ELSE LET it == CHOOSE x \in S : TRUE
       IN  it.price * it.quantity + ItemsAmount(S \ {it})

HasMissingProduct(req) ==
  \E n \in 1..Len(req) : req[n].ProductID \notin DOMAIN products

\* C1: every committed order's total_amount is the sum of price * quantity
\* over its OrderItems, also when a product's price is changed by another
\* transaction while CreateOrder runs.
C1_TotalIsSumOfItems ==
  \A o \in orders : o.total_amount = ItemsAmount(ItemRows(o.id))

\* C2: a CreateOrder call whose item list names a product that does not
\* exist, at any position, persists no row at any time and ends with the
\* no-such-row failure of the price lookup.
C2_MissingProductPersistsNothing ==
  \A c \in Calls :
    HasMissingProduct(call[c].req) =>
      /\ OrderRows(c) = {} /\ ItemRows(c) = {}
      /\ call[c].pc = "done" =>
            /\ ~call[c].res.ok
            /\ call[c].res.err = "ErrNoRows"
            /\ call[c].res.OrderID = None

C2_Witness ==
  \E c \in Calls :
    /\ call[c].pc = "done"
    /\ Len(call[c].req) = 2
    /\ call[c].req[1].ProductID \in DOMAIN products
    /\ call[c].req[2].ProductID = MissingID
    /\ call[c].res.err = "ErrNoRows"

\* The amount of a request at the catalog's prices, in hundredths.
RECURSIVE RequestAmount(_)
RequestAmount(req) ==
  IF req = <<>> THEN 0
  ELSE req[1].Qty * products[req[1].ProductID].price + RequestAmount(Tail(req))

\* The order_items rows of the request of call c at the catalog's prices.
RequestItemRows(c) ==
  {[id |-> <<c, k>>, order_id |-> c, product_id |-> call[c].req[k].ProductID,
    quantity |-> call[c].req[k].Qty,
    price |-> products[call[c].req[k].ProductID].price,
    created_at |-> call[c].now] : k \in 1..Len(call[c].req)}

\* C3: the orders a GetUserOrders call has fetched are committed orders, and
\* each order of its result carries one item for every pair of the request
\* that created it, in every interleaving with CreateOrder calls.
C3_NoPartialOrderObserved ==
  \A r \in Readers :
    /\ \A n \in 1..Len(reader[r].rows) :
         LET c == reader[r].rows[n].id
         IN  call[c].pc = "done" /\ call[c].res.ok
    /\ \A n \in 1..Len(reader[r].orders) :
         LET o == reader[r].orders[n]
             req == call[o.ID].req
         IN  /\ Len(o.Items) = Len(req)
             /\ \A k \in 1..Len(req) :
                  \E m \in 1..Len(o.Items) :
                    /\ o.Items[m].ID = <<o.ID, k>>
                    /\ o.Items[m].ProductID = req[k].ProductID
                    /\ o.Items[m].Quantity = req[k].Qty

C3_Witness ==
  \E r \in Readers, c, d \in Calls :
    /\ reader[r].pc = "done"
    /\ Len(reader[r].orders) = 1
    /\ reader[r].orders[1].ID = c
    /\ Len(reader[r].orders[1].Items) = 2
    /\ call[d].pc = "commit"
    /\ call[d].userID = reader[r].userID
    /\ call[d].now < call[c].now

\* C5: a CreateOrder call for the product that runs concurrently with
\* another one commits unless the store fails its commit, and its order
\* stays the one of its own request: one orders row with the total of its
\* request and one order_items row per pair, at the product's price.
C5_ConcurrentOrdersIndependent ==
  \A c \in Calls :
    (call[c].pc = "done" /\ call[c].res.err # "ErrCommit") =>
      /\ call[c].res.ok
      /\ call[c].res.OrderID = c
      /\ OrderRows(c) = {[id |-> c, user_id |-> call[c].userID,
                           total_amount |-> RequestAmount(call[c].req),
                           status |-> "pending", created_at |-> call[c].now]}
      /\ ItemRows(c) = RequestItemRows(c)

C5_Witness ==
  \E c, d \in Calls :
    /\ c # d
    /\ call[c].pc = "done" /\ call[c].res.ok
    /\ call[d].pc = "done" /\ call[d].res.ok
    /\ call[d].now < call[c].now
    /\ call[c].req # <<>> /\ call[d].req # <<>>
    /\ call[c].req # call[d].req

\* C9: a finished GetUserOrders call has succeeded and returns each order
\* that was committed for its user when its query ran exactly once, no
\* order of another user, the most recently created first; for a user
\* without orders that is the empty sequence.
C9_UserOrdersMostRecentFirst ==
  \A r \in Readers :
    reader[r].pc = "done" =>
      LET res  == reader[r].orders
          mine == {o \in reader[r].snapshot : o.user_id = reader[r].userID}
      IN  /\ reader[r].ok
          /\ {res[n].ID : n \in 1..Len(res)} = {o.id : o \in mine}
          /\ Len(res) = Cardinality(mine)
          /\ \A n \in 1..Len(res) : res[n].UserID = reader[r].userID
          /\ \A n, m \in 1..Len(res) :
               n < m => res[n].CreatedAt >= res[m].CreatedAt

C9_Witness ==
  \E r \in Readers :
    /\ reader[r].pc = "done"
    /\ Len(reader[r].orders) = 2
    /\ reader[r].orders[1].CreatedAt > reader[r].orders[2].CreatedAt

\* The amount of a request at the prices pr[n], in hundredths.
RECURSIVE AmountAt(_, _, _)
AmountAt(req, pr, n) ==
  IF n > Len(req) THEN 0
  ELSE req[n].Qty * pr[n] + AmountAt(req, pr, n + 1)

\* The price lists that give every pair of the request of call c a price
\* its product had at some time during the call.
CallTimePrices(c) ==
  {pr \in [1..Len(call[c].req) -> PriceSet] :
     \A n \in 1..Len(call[c].req) :
       pr[n] \in call[c].seen[call[c].req[n].ProductID]}

\* C4: the total a successful CreateOrder returns is the sum of quantity *
\* price over the pairs of its request, at prices the products had at the
\* time of the call; it is the float64 that reads as that decimal amount.
C4_ReturnedTotalIsSum ==
  \A c \in Calls :
    (call[c].pc = "done" /\ call[c].res.ok) =>
      \E pr \in CallTimePrices(c) :
        call[c].res.Total = F64FromRatio(AmountAt(call[c].req, pr, 1), 100)

\* C6: a CreateOrder whose commit fails returns the commit failure and no
\* order identifier, and no row of it is in the tables or in what a reader
\* has fetched, then or afterwards.
C6_FailedCommitLeavesNothing ==
  /\ [](\A c \in Calls :
         (call[c].pc = "done" /\ call[c].res.err = "ErrCommit") =>
           /\ ~call[c].res.ok
           /\ call[c].res.OrderID = None
           /\ OrderRows(c) = {} /\ ItemRows(c) = {}
           /\ \A r \in Readers :
                \A n \in 1..Len(reader[r].rows) : reader[r].rows[n].id # c)
  /\ [][\A c \in Calls :
         (/\ call[c].pc = "commit"
          /\ call'[c].pc = "done"
          /\ \A o \in orders' : o.id # c) =>
           /\ ~call'[c].res.ok
           /\ call'[c].res.err = "ErrCommit"
           /\ call'[c].res.OrderID = None
           /\ \A it \in order_items' : it.order_id # c]_vars

C6_Witness ==
  \E c \in Calls, r \in Readers :
    /\ call[c].pc = "done"
    /\ call[c].res.err = "ErrCommit"
    /\ Len(call[c].req) = 2
    /\ reader[r].pc = "done"
    /\ reader[r].userID = call[c].userID
    /\ reader[r].orders = <<>>

\* C7: the total and the item prices GetUserOrders returns for an order are
\* the stored ones, the product attached to an item carries the item's
\* price, and no step changes a committed orders or order_items row,
\* whatever the products' prices become.
C7_SnapshotPricesFrozen ==
  /\ [](\A r \in Readers :
         \A n \in 1..Len(reader[r].orders) :
           LET o == reader[r].orders[n]
           IN  /\ \E row \in orders :
                    /\ row.id = o.ID
                    /\ o.TotalAmount = F64FromRatio(row.total_amount, 100)
               /\ \A m \in 1..Len(o.Items) :
                    /\ \E row \in order_items :
                         /\ row.id = o.Items[m].ID
                         /\ o.Items[m].Price = F64FromRatio(row.price, 100)
                    /\ o.Items[m].Product.Price = o.Items[m].Price)
  /\ [][orders \subseteq orders' /\ order_items \subseteq order_items']_vars

C7_Witness ==
  \E r \in Readers :
    /\ reader[r].pc = "done"
    /\ Len(reader[r].orders) = 1
    /\ Len(reader[r].orders[1].Items) = 2
    /\ \E m \in 1..2 :
         LET it == reader[r].orders[1].Items[m]
         IN  it.Product.Price # F64FromRatio(products[it.ProductID].price, 100)

\* C8: a GetUserOrders call for the user of a successful CreateOrder, run
\* after its commit, returns one order: the identifier and the total that
\* CreateOrder returned, and one item per pair of the request with its
\* product, its quantity and a price the product had at order time.
C8_RoundTrip ==
  \A c \in Calls, r \in Readers :
    (/\ call[c].pc = "done" /\ call[c].res.ok
     /\ reader[r].pc = "done"
     /\ reader[r].userID = call[c].userID
     /\ \E o \in reader[r].snapshot : o.id = c) =>
      /\ Len(reader[r].orders) = 1
      /\ LET o == reader[r].orders[1]
             req == call[c].req
         IN  /\ o.ID = call[c].res.OrderID
             /\ o.TotalAmount = call[c].res.Total
             /\ Len(o.Items) = Len(req)
             /\ \A k \in 1..Len(req) :
                  \E m \in 1..Len(o.Items) :
                    /\ o.Items[m].ID = <<c, k>>
                    /\ o.Items[m].ProductID = req[k].ProductID
                    /\ o.Items[m].Quantity = req[k].Qty
                    /\ \E pr \in call[c].seen[req[k].ProductID] :
                         o.Items[m].Price = F64FromRatio(pr, 100)

\* t contains q as a substring, without regard to case.
ContainsFold(t, q) ==
  \E n \in 0..(Len(t) - Len(q)) : Lower(SubSeq(t, n + 1, n + Len(q))) = Lower(q)

\* The products that satisfy every filter that is present.
Matching(filter) ==
  {p \in DOMAIN products :
     /\ filter.Query # <<>> =>
          \/ ContainsFold(products[p].title, filter.Query)
          \/ ContainsFold(products[p].description, filter.Query)
     /\ filter.Category # "" => products[p].category = filter.Category}

\* C10: without limit and offset, GetProducts returns exactly the products
\* whose title or description contains the search text as a substring
\* without regard to case, when it is present, and whose category is the
\* filter's, when it is present.
C10_ListIsExactlyTheMatches ==
  (listing.done /\ listing.filter.Limit <= 0 /\ listing.filter.Offset <= 0) =>
    /\ {listing.products[n].ID : n \in 1..Len(listing.products)}
         = Matching(listing.filter)
    /\ Len(listing.products) = Cardinality(Matching(listing.filter))

\* The products the WHERE clause of the listing's filter selects.
Selected(filter) == {p \in DOMAIN products : WhereClause(products[p], filter)}

C12_NotFoundOnlyWhenMissing ==
  (/\ http.pc = "done"
   /\ http.route = "GET /api/products/:id"
   /\ http.id # InvalidID) =>
     /\ http.status = 404 <=> (http.id \notin DOMAIN products /\ ~http.storeErr)
     /\ http.status = 200 <=> (http.id \in DOMAIN products /\ ~http.storeErr)
     /\ http.storeErr => http.status = 500

\* C13: a read during which the store failed while result rows were being
\* fetched ends in a failure: GetUserOrders, whose own rows or whose
\* orders' items were cut short, does not succeed, and GetProducts returns
\* an error.
C13_NoTruncatedResultAsSuccess ==
  /\ \A r \in Readers :
       (reader[r].pc = "done" /\ reader[r].rowsErr) => ~reader[r].ok
  /\ (listing.done /\ listing.rowsErr) => listing.err # None

\* C14: CreateOrder never changes a products row, whether the call commits
\* or fails: after any CreateOrder calls every product has the price and
\* the stock_quantity it had before the first of them.
C14_ProductsUnchangedByOrders ==
  \A p \in DOMAIN InitProducts :
    /\ p \in DOMAIN products
    /\ products[p] = InitProducts[p]
    /\ products[p].stock_quantity = InitProducts[p].stock_quantity

C14_Witness ==
  \E c, d \in Calls :
    /\ call[c].pc = "done" /\ call[c].res.ok /\ Len(call[c].req) = 2
    /\ call[d].pc = "done" /\ call[d].res.err = "ErrCommit" /\ Len(call[d].req) = 1
    /\ ItemRows(c) # {}

\* C15: the product title and category GetUserOrders returns with an order
\* item are those the product had when the order was created, also after
\* the product's row has been edited.
C15_SnapshotTitleAndCategory ==
  \A r \in Readers :
    \A n \in 1..Len(reader[r].orders) :
      LET o == reader[r].orders[n]
      IN  \A m \in 1..Len(o.Items) :
            LET it == o.Items[m]
            IN  /\ it.Product.Title = call[o.ID].attrs[it.ProductID].title
                /\ it.Product.Category = call[o.ID].attrs[it.ProductID].category

\* C16: every order_items row, committed or written in a transaction, has
\* quantity >= 1: a request with an item of quantity 0 or less is rejected
\* by the binding and nothing of it is persisted.
C16_QuantityAtLeastOne ==
  /\ \A it \in order_items : it.quantity >= 1
  /\ \A c \in Calls :
       /\ \A it \in call[c].txItems : it.quantity >= 1
       /\ (\E n \in 1..Len(call[c].req) : call[c].req[n].Qty <= 0) =>
            /\ call[c].pc = "done"
            /\ ~call[c].res.ok
            /\ call[c].res.err = "ErrBinding"
            /\ call[c].txOrder = {}
            /\ OrderRows(c) = {} /\ ItemRows(c) = {}

C16_Witness ==
  \E c \in Calls :
    /\ call[c].pc = "done"
    /\ call[c].res.err = "ErrBinding"
    /\ Len(call[c].req) = 2
    /\ call[c].req[1].Qty = 1
    /\ call[c].req[2].Qty = 0
    /\ orders = {} /\ order_items = {}

\* A token signed with the server's secret whose exp has not passed.
ValidToken(authorization) ==
  authorization.key = JWTSecret /\ ~authorization.expired

\* C17: a request to POST /api/orders or GET /api/orders/my without
\* Authorization header or with a token that is not valid is answered 401
\* and reaches neither CreateOrder nor GetUserOrders, which run only for the
\* user of a valid token; the product list, the product lookup, register
\* and login are handed to their handlers whatever the header, never 401.
C17_OrdersOnlyBehindJWT ==
  http.pc # "idle" =>
    /\ (http.route \in ProtectedRoutes /\ ~ValidToken(http.authorization)) =>
         /\ http.pc = "done"
         /\ http.status = 401
         /\ http.handler = None
    /\ \A c \in Calls :
         call[c].pc # "idle" =>
           /\ http.route = "POST /api/orders"
           /\ ValidToken(http.authorization)
           /\ call[c].userID = http.authorization.user_id
    /\ \A r \in Readers :
         reader[r].pc # "idle" =>
           /\ http.route = "GET /api/orders/my"
           /\ ValidToken(http.authorization)
           /\ reader[r].userID = http.authorization.user_id
    /\ http.route \notin ProtectedRoutes =>
         /\ http.status # 401
         /\ http.handler = Handler(http.route)

C17_Witness ==
  /\ http.pc = "done"
  /\ http.route = "POST /api/orders"
  /\ http.authorization.key = "forged"
  /\ http.status = 401
  /\ BindingValid(http.body)
  /\ \A c \in Calls : call[c].pc = "idle"

\* C18: a CreateOrder call never waits without end: whenever the store
\* leaves a round trip of the call unanswered, the call is still going to
\* return, failing when the timeout of its context expires.
C18_SilentStoreTimesOut ==
  \A c \in Calls : call[c].pc = "hung" => ENABLED CreateOrderDeadline(c)

\* C19: every order is created with status pending and no operation changes
\* it: every orders row, committed or written in a transaction, and every
\* order GetUserOrders returns has status pending.
C19_StatusAlwaysPending ==
  /\ \A o \in orders : o.status = "pending"
  /\ \A c \in Calls : \A o \in call[c].txOrder : o.status = "pending"
  /\ \A r \in Readers :
       \A n \in 1..Len(reader[r].orders) : reader[r].orders[n].Status = "pending"

C19_Witness ==
  \E r \in Readers :
    /\ reader[r].pc = "done"
    /\ Len(reader[r].orders) = 2
    /\ reader[r].orders[1].CreatedAt = reader[r].orders[2].CreatedAt
    /\ reader[r].orders[1].Status = "pending"
    /\ reader[r].orders[2].Status = "pending"
    /\ Cardinality(orders) = 2

\* C20: a CreateOrder call with an empty item list goes straight to the
\* INSERT of the order and succeeds unless the store fails the commit; it
\* then has persisted exactly one order, with total 0 and status pending,
\* and no order item, and returns that order's id and the total 0.
C20_EmptyOrderAccepted ==
  \A c \in Calls :
    (call[c].pc # "idle" /\ call[c].req = <<>>) =>
      /\ call[c].pc \in {"insertOrder", "commit", "done"}
      /\ call[c].txItems = {}
      /\ call[c].pc = "done" =>
           /\ call[c].res.ok \/ call[c].res.err = "ErrCommit"
           /\ call[c].res.ok =>
                /\ call[c].res.OrderID = c
                /\ call[c].res.Total = F64Zero
                /\ OrderRows(c) = {[id |-> c, user_id |-> call[c].userID,
                                     total_amount |-> 0, status |-> "pending",
                                     created_at |-> call[c].now]}
                /\ ItemRows(c) = {}

C20_Witness ==
  \E c \in Calls, r \in Readers :
    /\ call[c].pc = "done" /\ call[c].res.ok /\ call[c].req = <<>>
    /\ reader[r].pc = "done"
    /\ Len(reader[r].orders) = 1
    /\ reader[r].orders[1].ID = c
    /\ reader[r].orders[1].Items = <<>>
    /\ reader[r].orders[1].TotalAmount = F64Zero

\* C22: the total a successful CreateOrder returns is a decimal amount at
\* currency precision (the float64 nearest to a whole number of hundredths)
\* and is the total_amount stored for the order.
C22_TotalIsDecimal ==
  \A c \in Calls :
    (call[c].pc = "done" /\ call[c].res.ok) =>
      /\ call[c].res.Total = F64FromRatio(NumericRound2(call[c].res.Total), 100)
      /\ \A o \in OrderRows(c) :
           call[c].res.Total = F64FromRatio(o.total_amount, 100)

\* C24: a committed order has one order_items row per pair of its request,
\* with the pair's product and quantity, also when several pairs name the
\* same product; its total_amount is the amount of all the pairs.
C24_OneItemPerPair ==
  \A c \in Calls :
    (call[c].pc = "done" /\ call[c].res.ok) =>
      /\ Cardinality(ItemRows(c)) = Len(call[c].req)
      /\ \A k \in 1..Len(call[c].req) :
           \E it \in ItemRows(c) :
             /\ it.id = <<c, k>>
             /\ it.product_id = call[c].req[k].ProductID
             /\ it.quantity = call[c].req[k].Qty
      /\ \A o \in OrderRows(c) : o.total_amount = RequestAmount(call[c].req)

C24_Witness ==
  \E c \in Calls :
    /\ call[c].pc = "done" /\ call[c].res.ok
    /\ Len(call[c].req) = 2
    /\ call[c].req[1].ProductID = call[c].req[2].ProductID
    /\ Cardinality(ItemRows(c)) = 2
    /\ OrderRows(c) # {}

\* C23: a CreateOrder call opens one transaction; while the call works its
\* inserts are held by that transaction and none of its rows is in the
\* tables; when the call has returned the transaction is committed (the
\* call succeeded) or rolled back (it failed, and left no row), whatever
\* the exit path.
C23_OneTransactionClosedOnReturn ==
  \A c \in Calls :
    /\ call[c].txCount <= 1
    /\ call[c].pc = "idle" => call[c].tx = "none"
    /\ call[c].pc \notin {"idle", "done"} =>
         /\ call[c].tx = "open" /\ call[c].txCount = 1
         /\ OrderRows(c) = {} /\ ItemRows(c) = {}
    /\ call[c].pc = "done" =>
         /\ call[c].txCount = 1
         /\ call[c].tx \in {"committed", "rolledback"}
         /\ call[c].tx = "committed" <=> call[c].res.ok
         /\ call[c].tx = "rolledback" => OrderRows(c) = {} /\ ItemRows(c) = {}
         /\ call[c].txOrder = {} /\ call[c].txItems = {}

\* A statement of the second loop has failed after the order row was
\* inserted, and the call has returned with its transaction rolled back.
C23_Witness ==
  \E c \in Calls :
    /\ call[c].pc = "done"
    /\ call[c].res.err = "ErrStatement"
    /\ call[c].now >= 2
    /\ Len(call[c].req) > 0
    /\ call[c].tx = "rolledback"

\* C21: two GetUserOrders calls for the same user with no write committed
\* between them return the same orders with the same items in the same
\* order, and two GetProducts calls with the same filter return the same
\* products in the same order.
C21_ReadsIdempotent ==
  /\ \A r \in Readers :
       (/\ earlier.reader.pc = "done" /\ earlier.reader.ok
        /\ reader[r].pc = "done" /\ reader[r].ok
        /\ reader[r].userID = earlier.reader.userID
        /\ earlier.reader.snapshot = orders) =>
         reader[r].orders = earlier.reader.orders
  /\ (/\ earlier.listing.done /\ earlier.listing.err = None
      /\ listing.done /\ listing.err = None
      /\ listing.filter = earlier.listing.filter) =>
        listing.products = earlier.listing.products

\* C25: of two RegisterUser calls with the same email that have both
\* returned, one has created the user (201) and the other has failed with
\* "user already exists", answered 409 "Email already registered"; and no
\* two rows of users have the same email.
C25_ConcurrentRegisterOneWins ==
  /\ \A a, b \in AuthCalls :
       (/\ a # b
        /\ auth[a].op = "register" /\ auth[a].pc = "done"
        /\ auth[b].op = "register" /\ auth[b].pc = "done"
        /\ auth[a].email = auth[b].email
        /\ auth[a].status = 201) =>
         /\ auth[b].err = "user already exists"
         /\ auth[b].status = 409
         /\ auth[b].message = "Email already registered"
  /\ \A u, v \in users : u.email = v.email => u = v

\* C29: a failed LoginUser gives "invalid credentials", answered 401
\* "Invalid email or password" without token or user, whether the email is
\* unknown or the password is wrong: any two failed logins have the same
\* outcome.
C29_LoginFailureUniform ==
  \A a, b \in AuthCalls :
    (/\ auth[a].op = "login" /\ auth[a].pc = "done" /\ auth[a].status # 200
     /\ auth[b].op = "login" /\ auth[b].pc = "done" /\ auth[b].status # 200) =>
      /\ auth[a].err = "invalid credentials"
      /\ auth[a].status = 401
      /\ auth[a].message = "Invalid email or password"
      /\ <<auth[a].err, auth[a].status, auth[a].message, auth[a].user, auth[a].token>>
           = <<auth[b].err, auth[b].status, auth[b].message, auth[b].user, auth[b].token>>

\* One login with an email no user has and one with a wrong password of a
\* registered email have both failed.
C29_Witness ==
  \E a, b \in AuthCalls :
    /\ auth[a].op = "login" /\ auth[a].pc = "done" /\ auth[a].status = 401
    /\ auth[b].op = "login" /\ auth[b].pc = "done" /\ auth[b].status = 401
    /\ \A u \in users : u.email # auth[a].email
    /\ \E u \in users :
         /\ u.email = auth[b].email
         /\ ~CompareHashAndPassword(u.password_hash, auth[b].password)

\* C26: when no product request of the Home page is in flight and the page
\* shows no error, the products it shows are an answer to the search text
\* and the category it shows, in whatever order the answers have arrived.
C26_HomeShowsLatestQuery ==
  (home.mounted /\ home.inflight = {} /\ home.error = None) =>
    home.products \in GetProductsResponses(home.searchQuery, home.selectedCategory)

\* C27: a step of the checkout changes the items of the cart only when
\* createOrder has answered with success, and then empties it; a checkout
\* begun without login or with an empty cart sends no request and leaves
\* the cart as it is; a failed createOrder leaves the cart as it is.
C27_CartClearedOnlyAfterSuccess ==
  [][checkout' # checkout =>
       /\ cart'.items # cart.items =>
            /\ checkout.pc = "sent"
            /\ checkout'.outcome = "success"
            /\ cart'.items = <<>>
       /\ (checkout.pc = "idle" /\ (~checkout.loggedIn \/ cart.items = <<>>)) =>
            /\ checkout'.requests = checkout.requests
            /\ checkout'.pc = "idle"
            /\ cart' = cart
       /\ (checkout.pc = "sent" /\ checkout'.outcome = "failed") => cart' = cart]_vars

\* A createOrder request has failed and the cart still holds its items.
C27_Witness ==
  /\ checkout.outcome = "failed"
  /\ checkout.requests > 0
  /\ cart.items = [n \in 1..Len(checkout.orderData) |->
                     [id |-> checkout.orderData[n].productId,
                      quantity |-> checkout.orderData[n].qty]]
  /\ cart.items # <<>>

\* C28: in every state of the cart store no two items have the same id and
\* every item has quantity >= 1; addItem of a product of the cart adds 1 to
\* its quantity and no entry; updateQuantity with a quantity <= 0 removes
\* the item.
C28_CartItemsUniquePositive ==
  /\ [](/\ \A m, n \in 1..Len(cart.items) :
             cart.items[m].id = cart.items[n].id => m = n
        /\ \A n \in 1..Len(cart.items) : cart.items[n].quantity >= 1)
  /\ [][/\ \A id \in CartProducts :
            (addItem(id) /\ \E n \in 1..Len(cart.items) : cart.items[n].id = id) =>
              /\ Len(cart'.items) = Len(cart.items)
              /\ \A n \in 1..Len(cart.items) :
                   /\ cart'.items[n].id = cart.items[n].id
                   /\ cart'.items[n].quantity =
                        cart.items[n].quantity + (IF cart.items[n].id = id THEN 1 ELSE 0)
       /\ \A id \in CartProducts, quantity \in CartQuantities :
            (updateQuantity(id, quantity) /\ quantity <= 0) =>
              \A n \in 1..Len(cart'.items) : cart'.items[n].id # id]_vars

\* Both products are in the cart, one of them added more than once.
C28_Witness ==
  /\ Len(cart.items) = 2
  /\ \E n \in 1..Len(cart.items) : cart.items[n].quantity > 1

\* C30: a run of SeedProducts that finds a row in the products table
\* inserts nothing and ends at once; over any number of runs in sequence
\* no seed product is in the table twice, and the rows in the table are
\* those of one run.
C30_SeedInsertsOnce ==
  /\ [](/\ \A p, q \in DOMAIN products :
             products[p].title = products[q].title => p = q
        /\ \A run \in 1..MaxRuns, other \in 1..MaxRuns :
             (/\ \E k \in 1..Len(seed.file) : SeedID(run, k) \in DOMAIN products
              /\ \E k \in 1..Len(seed.file) : SeedID(other, k) \in DOMAIN products) =>
               run = other)
  /\ [][(seed'.runs # seed.runs /\ DOMAIN products # {}) =>
          /\ seed'.pc = "up"
          /\ seed'.outcome \in {"skipped", "ErrCount"}
          /\ products' = products]_vars

\* The first run has seeded the table and a later run has skipped.
C30_Witness ==
  /\ seed.runs >= 2
  /\ seed.pc = "up"
  /\ seed.outcome = "skipped"
  /\ Len(seed.file) = 2
  /\ \A k \in 1..2 : SeedID(1, k) \in DOMAIN products
  /\ Cardinality(DOMAIN products) = 2

====
